---- MODULE Spec2Model ----
\* Model of src/.netlify/functions/api.js: the Netlify function that meters a
\* shared daily quota (global.counterState) and runs the pipeline
\* generateScript -> generateImages for each admitted POST request.
\*
\* Concurrency: handler is an async function.  Each stretch of code between two
\* awaits runs without interruption; several invocations in one process
\* interleave at the awaits.  getCounterState and updateCounterState contain no
\* await of their own, so their bodies run inside the caller's stretch and the
\* caller's continuation is queued as a microtask (first in, first out).  The
\* awaits on fetch/response bodies settle from I/O, after the microtask queue
\* has drained.
EXTENDS Integers, Sequences, FiniteSets, TLC

VARIABLES
  now,            \* the UTC day that new Date() currently reports
  counterState,   \* global.counterState: 0 = undefined, else the id of an object
  heap,           \* the counter objects: id -> [count, lastReset]
  req,            \* one record per handler invocation slot
  microtasks,     \* queued continuations of handler (slot numbers, FIFO)
  admittedToday,  \* history: requests admitted with today = now since the start or the last day change
  start           \* history: the persisted state the run started from

vars == <<now, counterState, heap, req, microtasks, admittedToday, start>>

\* ---------------------------------------------------------------- bounds
MaxReq == 2
MaxDay == 1
MaxScenes == 2
MaxBurst == 5

\* ---------------------------------------------------------------- constants
GLOBAL_DAILY_LIMIT == 50

FailurePlaceholder == "https://via.placeholder.com/1024x1024.png?text=Falha+ao+Gerar"
GenericPlaceholder == "https://via.placeholder.com/1024x1024.png?text=Imagem+Gerada"

\* ---------------------------------------------------------------- the heap
Slots == 1..MaxReq
ObjIds == 1..(MaxReq + 1)
NoObj == [count |-> -1, lastReset |-> -99]

\* The smallest unused object id: `{ count: ..., lastReset: ... }` allocates.
NewObj(h) == CHOOSE o \in DOMAIN h : h[o] = NoObj /\ \A p \in DOMAIN h : p < o => h[p] # NoObj

\* An object is kept while global.counterState or the `state` variable of an
\* invocation that has not yet used it refers to it.
Collect(h, cs, rq) ==
  LET live == {cs} \cup {rq[r].state : r \in {q \in DOMAIN rq : rq[q].pc = "getCounterState"}}
  IN [o \in DOMAIN h |-> IF o \in live THEN h[o] ELSE NoObj]

\* What a reader of global.counterState sees.
Persisted == IF counterState = 0 THEN NoObj ELSE heap[counterState]

\* ---------------------------------------------------------------- requests
Methods == {"OPTIONS", "GET", "POST"}

\* event.body: absent, "", text that is no JSON, "null", or a JSON object
\* whose idea / duration are absent, falsy or usable.
EventBody(raw, idea, duration) == [raw |-> raw, idea |-> idea, duration |-> duration]
NoBody == EventBody("undefined", "undefined", "undefined")
ValidBody == EventBody("object", "text", "number")
ObjectBodies ==
  {EventBody("object", i, d) : i \in {"undefined", "empty", "text"},
                               d \in {"undefined", "zero", "number"}}
BrokenBodies == {EventBody(x, "undefined", "undefined") : x \in {"undefined", "empty", "garbage", "null"}}
AllBodies == ObjectBodies \cup BrokenBodies
SomeBodies == {ValidBody, EventBody("object", "undefined", "undefined"), NoBody}

\* `const { idea, duration } = JSON.parse(event.body)`: JSON.parse throws on
\* undefined, "" and text that is no JSON; destructuring null throws.
ParseThrows(body) == body.raw # "object"

Truthy(v) == v \notin {"undefined", "empty", "zero", "null"}

\* `!idea || !duration`
MissingFields(body) == ~Truthy(body.idea) \/ ~Truthy(body.duration)

\* ---------------------------------------------------------------- scenes
\* An element of the "script" array: a Scene record, an object without the
\* Scene fields (its description is undefined), or null.
Scene(d) == [kind |-> "scene", description |-> d]
BareObject == [kind |-> "object", description |-> "undefined"]
NullElem == [kind |-> "null", description |-> "undefined"]
Descriptions == {"a", "b"}
Elems == {Scene(d) : d \in Descriptions} \cup {BareObject, NullElem}

SeqsUpTo(S, n) == UNION {[1..k -> S] : k \in 0..n}

\* One invocation of handler.  Besides its position (pc) and locals (today,
\* state) the record keeps history: what the gate decided (ok, full), how
\* generateScript ended (scripted, shaped), by how much the invocation raised
\* the count (incr), whether updateCounterState stored its state (wrote), and
\* how many text-generation and image fetches it has issued (textCalls, issued).
Idle ==
  [pc |-> "idle", method |-> "none", body |-> NoBody, today |-> 0, state |-> 0,
   reset |-> FALSE, ok |-> FALSE, full |-> FALSE, scripted |-> "none", shaped |-> FALSE,
   script |-> <<>>, calls |-> <<>>, order |-> <<>>, images |-> <<>>, status |-> 0,
   incr |-> 0, wrote |-> FALSE, textCalls |-> 0, issued |-> 0]

Done(r, code) == [Idle EXCEPT !.pc = "done", !.method = req[r].method, !.body = req[r].body,
                              !.ok = req[r].ok, !.full = req[r].full,
                              !.scripted = req[r].scripted, !.shaped = req[r].shaped,
                              !.incr = req[r].incr, !.wrote = req[r].wrote,
                              !.textCalls = req[r].textCalls, !.issued = req[r].issued,
                              !.status = code]

\* ---------------------------------------------------------------- the quota
\* getCounterState: `global.counterState || { count: 0, lastReset: <today> }`.
getCounterState(date) == [count |-> 0, lastReset |-> date]

DayReset_YesterdayOnly(st, today) ==
  IF st.lastReset = today - 1 THEN [count |-> 0, lastReset |-> today] ELSE st

\* `if (state.lastReset !== today) state = { count: 0, lastReset: today }`
DayReset(st, today) == IF st.lastReset # today THEN [count |-> 0, lastReset |-> today] ELSE st

LimitReached_Strict(st) == st.count > GLOBAL_DAILY_LIMIT

\* `state.count >= GLOBAL_DAILY_LIMIT`
LimitReached(st) == st.count >= GLOBAL_DAILY_LIMIT

Increment_Twice(st) == [st EXCEPT !.count = @ + 2]

Increment_Forgotten(st) == st

\* `state.count++`
Increment(st) == [st EXCEPT !.count = @ + 1]

updateCounterState_Dropped(old, newState) == old

\* updateCounterState: `global.counterState = newState`.
updateCounterState(old, newState) == newState

\* The decisions of handler between the two quota awaits, in the order of the
\* code: limit check, JSON.parse, field check, admission.
Gate(st, today, body) ==
  IF LimitReached(DayReset(st, today)) THEN "429"
  ELSE IF ParseThrows(body) THEN "500"
  ELSE IF MissingFields(body) THEN "400"
  ELSE "admit"

\* ---------------------------------------------------------------- handler
Reject_PersistsReset(r, code, full) ==
  /\ req' = [req EXCEPT ![r] = [Done(r, code) EXCEPT !.full = full]]
  /\ heap' = Collect([heap EXCEPT ![counterState] = DayReset(@, req[r].today)], counterState, req')
  /\ microtasks' = Tail(microtasks)
  /\ UNCHANGED <<now, counterState, admittedToday, start>>

\* The returns of lines 212-218 (429) and 226-230 (400) and the catch block
\* after a throwing JSON.parse (500): the local `state` is dropped, nothing is
\* written.  `full` records that the count the check looked at was the limit.
Reject(r, code, full) ==
  /\ req' = [req EXCEPT ![r] = [Done(r, code) EXCEPT !.full = full]]
  /\ heap' = Collect(heap, counterState, req')
  /\ microtasks' = Tail(microtasks)
  /\ UNCHANGED <<now, counterState, admittedToday, start>>

Fail_Retry(r, scripted, shaped, issued) ==
  /\ req' = [req EXCEPT ![r].pc = "fetch", ![r].textCalls = @ + 1]
  /\ UNCHANGED <<now, counterState, heap, microtasks, admittedToday, start>>

Fail_NoReturn(r, scripted, shaped, issued) ==
  /\ req' = [req EXCEPT ![r] = [Done(r, 0) EXCEPT !.scripted = scripted, !.shaped = shaped,
                                                 !.issued = issued]]
  /\ UNCHANGED <<now, counterState, heap, microtasks, admittedToday, start>>

Fail_Rollback(r, scripted, shaped, issued) ==
  /\ req' = [req EXCEPT ![r] = [Done(r, 500) EXCEPT !.scripted = scripted, !.shaped = shaped,
                                                   !.issued = issued]]
  /\ heap' = [heap EXCEPT ![counterState].count = @ - 1]
  /\ UNCHANGED <<now, counterState, microtasks, admittedToday, start>>

\* The catch block of handler (lines 252-259) after the quota was written: it
\* answers 500 and leaves the counter alone.
Fail(r, scripted, shaped, issued) ==
  /\ req' = [req EXCEPT ![r] = [Done(r, 500) EXCEPT !.scripted = scripted, !.shaped = shaped,
                                                   !.issued = issued]]
  /\ UNCHANGED <<now, counterState, heap, microtasks, admittedToday, start>>

\* The call of handler up to its first await: the verb checks, `today`, and the
\* body of getCounterState, which creates the counter on first use with a
\* second reading of the clock.
HandlerEntry(r, reuse, methods, bodies) ==
  /\ req[r].pc = "idle" \/ (reuse /\ req[r].pc = "done")
  /\ \E m \in methods :
       IF m = "OPTIONS" THEN
         /\ req' = [req EXCEPT ![r] = [Idle EXCEPT !.pc = "done", !.method = m, !.status = 204]]
         /\ UNCHANGED <<now, counterState, heap, microtasks, admittedToday, start>>
       ELSE IF m # "POST" THEN
         /\ req' = [req EXCEPT ![r] = [Idle EXCEPT !.pc = "done", !.method = m, !.status = 405]]
         /\ UNCHANGED <<now, counterState, heap, microtasks, admittedToday, start>>
       ELSE
         \E b \in bodies :
         \E date \in {now} \cup (IF counterState = 0 /\ now < MaxDay THEN {now + 1} ELSE {}) :
           LET o  == IF counterState = 0 THEN NewObj(heap) ELSE counterState
               h1 == IF counterState = 0 THEN [heap EXCEPT ![o] = getCounterState(date)] ELSE heap
           IN /\ req' = [req EXCEPT ![r] = [Idle EXCEPT !.pc = "getCounterState", !.method = m,
                                                       !.body = b, !.today = now, !.state = o]]
              /\ heap' = h1
              /\ counterState' = o
              /\ now' = date
              /\ admittedToday' = IF date = now THEN admittedToday ELSE 0
              /\ microtasks' = Append(microtasks, r)
              /\ UNCHANGED start

\* The continuation after `await getCounterState()`, up to the next await or
\* the return: day reset, limit check, parse, field check, `state.count++` and
\* the body of updateCounterState.
AfterGetCounterState(r) ==
  /\ microtasks # <<>> /\ Head(microtasks) = r
  /\ req[r].pc = "getCounterState"
  /\ LET st  == heap[req[r].state]
         t   == req[r].today
         out == Gate(st, t, req[r].body)
     IN IF out # "admit" THEN
          Reject(r, IF out = "429" THEN 429 ELSE IF out = "400" THEN 400 ELSE 500,
                 DayReset(st, t).count = GLOBAL_DAILY_LIMIT)
        ELSE
          LET fresh == DayReset(st, t) # st
              rq0   == [req EXCEPT ![r].pc = "updateCounterState", ![r].state = 0,
                                   ![r].reset = fresh, ![r].ok = TRUE]
              h0    == Collect(heap, counterState, rq0)
              o     == IF fresh THEN NewObj(h0) ELSE req[r].state
              h1    == [h0 EXCEPT ![o] = Increment(DayReset(st, t))]
              rq1   == [rq0 EXCEPT ![r].incr = h1[o].count - DayReset(st, t).count,
                                   ![r].wrote = (updateCounterState(counterState, o) = o)]
          IN /\ req' = rq1
             /\ counterState' = updateCounterState(counterState, o)
             /\ heap' = Collect(h1, updateCounterState(counterState, o), rq1)
             /\ microtasks' = Append(Tail(microtasks), r)
             /\ admittedToday' = IF t = now THEN admittedToday + 1 ELSE admittedToday
             /\ UNCHANGED <<now, start>>

\* The continuation after `await updateCounterState(state)`: the log line and
\* generateScript up to `await fetch(GEMINI_API_URL, ...)`.
AfterUpdateCounterState(r) ==
  /\ microtasks # <<>> /\ Head(microtasks) = r
  /\ req[r].pc = "updateCounterState"
  /\ req' = [req EXCEPT ![r].pc = "fetch", ![r].textCalls = @ + 1]
  /\ microtasks' = Tail(microtasks)
  /\ UNCHANGED <<now, counterState, heap, admittedToday, start>>

\* The clock passes midnight UTC.
Tick ==
  /\ now < MaxDay
  /\ now' = now + 1
  /\ admittedToday' = 0
  /\ UNCHANGED <<counterState, heap, req, microtasks, start>>

\* ---------------------------------------------------------------- generateScript
\* What the text-generation collaborator answers with a success status:
\*   json        response.json() resolves (the body is JSON)
\*   candidates  data.candidates[0].content.parts[0].text exists
\*   parses      JSON.parse(scriptJsonText) returns
\*   doc         the parsed document: "null" or "object"
\*   stype       the type of its "script" field
\*   elems       the elements when that field is an array
Payload(json, candidates, parses, doc, stype, elems) ==
  [json |-> json, candidates |-> candidates, parses |-> parses, doc |-> doc,
   stype |-> stype, elems |-> elems]
ArrayPayload(elems) == Payload(TRUE, TRUE, TRUE, "object", "array", elems)
BadPayloads ==
  {Payload(FALSE, FALSE, FALSE, "null", "undefined", <<>>),
   Payload(TRUE, FALSE, FALSE, "null", "undefined", <<>>),
   Payload(TRUE, TRUE, FALSE, "null", "undefined", <<>>),
   Payload(TRUE, TRUE, TRUE, "null", "undefined", <<>>)}
   \cup {Payload(TRUE, TRUE, TRUE, "object", t, <<>>) :
           t \in {"undefined", "null", "emptyString", "string", "object"}}

\* The payload is what the prompt asks for: a document whose "script" field is
\* an array of Scene records.
WellShaped(p) ==
  /\ p.json /\ p.candidates /\ p.parses /\ p.doc = "object" /\ p.stype = "array"
  /\ \A i \in 1..Len(p.elems) : p.elems[i].kind = "scene"

\* `!result.script`
FalsyScript(p) == p.stype \in {"undefined", "null", "emptyString"}

\* `Array.isArray(result.script)`
IsArray(p) == p.stype = "array"

\* Lines 108-122: response.json(), the path to the text, JSON.parse and the
\* check of result.script; ok = FALSE stands for the thrown Error.
generateScript(p) ==
  IF ~p.json THEN [ok |-> FALSE, script |-> <<>>]
  ELSE IF ~p.candidates \/ ~p.parses \/ p.doc = "null" THEN [ok |-> FALSE, script |-> <<>>]
  ELSE IF FalsyScript(p) \/ ~IsArray(p) THEN [ok |-> FALSE, script |-> <<>>]
  ELSE [ok |-> TRUE, script |-> p.elems]

\* ---------------------------------------------------------------- generateImages
Pending == "pending"
ImageOutcomes == {"reject", "notOk", "badJson", "nullData", "noUrl", "url"}
FailedOutcomes == {"reject", "notOk", "badJson", "nullData"}

\* The image the collaborator returns for a prompt.
UrlFor(prompt) == "https://img/" \o prompt

ImageChain_IgnoresStatus(outcome, scene) ==
  IF outcome \in {"reject", "badJson", "nullData"} THEN FailurePlaceholder
  ELSE IF outcome \in {"notOk", "noUrl"} THEN GenericPlaceholder
  ELSE UrlFor(scene.description)

\* One per-scene chain fetch(...).then(...).then(...).catch(...): a rejected
\* fetch, a non-success status, a body that is no JSON and a null document all
\* end in the catch; a document without imageUrl gives the generic image.
ImageChain(outcome, scene) ==
  IF outcome = "reject" THEN FailurePlaceholder
  ELSE IF outcome = "notOk" THEN FailurePlaceholder
  ELSE IF outcome = "badJson" THEN FailurePlaceholder
  ELSE IF outcome = "nullData" THEN FailurePlaceholder
  ELSE IF outcome = "noUrl" THEN GenericPlaceholder
  ELSE UrlFor(scene.description)

\* `script.map(scene => { const prompt = scene.description; ... })` throws a
\* TypeError on an element that is null.
MapThrows(script) == \E i \in 1..Len(script) : script[i].kind = "null"

\* The fetches that map has issued, for the elements before the first null,
\* when the TypeError leaves it.
IssuedBeforeThrow(script) ==
  Cardinality({i \in 1..Len(script) : \A j \in 1..i : script[j].kind # "null"})

PromiseAll_CompletionOrder(images, i, v) ==
  LET k == CHOOSE j \in 1..Len(images) :
             images[j] = Pending /\ \A m \in 1..(j - 1) : images[m] # Pending
  IN [images EXCEPT ![k] = v]

\* Promise.all stores the value of the i-th promise at index i.
PromiseAll(images, i, v) == [images EXCEPT ![i] = v]

AllSettled_Any(calls) == \E i \in 1..Len(calls) : calls[i] # Pending

\* `return Promise.all(imagePromises)` resolves when every chain has settled.
AllSettled(calls) == \A i \in 1..Len(calls) : calls[i] # Pending

\* The text-generation fetch settles: it rejects, or resolves with a status.
GeminiSettle(r) ==
  /\ microtasks = <<>>
  /\ req[r].pc = "fetch"
  /\ \E o \in {"reject", "notOk", "ok"} :
       IF o = "reject" THEN Fail(r, "threw", FALSE, 0)
       ELSE /\ req' = [req EXCEPT ![r].pc = IF o = "ok" THEN "json" ELSE "text"]
            /\ UNCHANGED <<now, counterState, heap, microtasks, admittedToday, start>>

\* `await response.text()` on a non-success status, then the throw.
ResponseText(r) ==
  /\ microtasks = <<>>
  /\ req[r].pc = "text"
  /\ Fail(r, "threw", FALSE, 0)

\* `await response.json()` and the rest of generateScript; on a returned script
\* handler calls generateImages, which issues one fetch per scene.
ResponseJson(r, payloads) ==
  /\ microtasks = <<>>
  /\ req[r].pc = "json"
  /\ \E p \in payloads :
       LET res == generateScript(p)
       IN IF ~res.ok THEN Fail(r, "threw", WellShaped(p), 0)
          ELSE IF MapThrows(res.script) THEN
            Fail(r, "returned", WellShaped(p), IssuedBeforeThrow(res.script))
          ELSE /\ req' = [req EXCEPT ![r].pc = "images", ![r].script = res.script,
                                     ![r].scripted = "returned", ![r].shaped = WellShaped(p),
                                     ![r].issued = Len(res.script),
                                     ![r].calls = [i \in 1..Len(res.script) |-> Pending],
                                     ![r].images = [i \in 1..Len(res.script) |-> Pending]]
               /\ UNCHANGED <<now, counterState, heap, microtasks, admittedToday, start>>

\* One per-scene chain settles, in any order.
ImageSettle(r, outcomes) ==
  /\ microtasks = <<>>
  /\ req[r].pc = "images"
  /\ \E i \in 1..Len(req[r].calls) : \E o \in outcomes :
       /\ req[r].calls[i] = Pending
       /\ req' = [req EXCEPT ![r].calls[i] = o,
                             ![r].order = Append(@, i),
                             ![r].images = PromiseAll(@, i, ImageChain(o, req[r].script[i]))]
  /\ UNCHANGED <<now, counterState, heap, microtasks, admittedToday, start>>

\* Promise.all resolves once every chain has settled; handler returns 200 with
\* { script, images }.
HandlerRespond(r) ==
  /\ microtasks = <<>>
  /\ req[r].pc = "images"
  /\ AllSettled(req[r].calls)
  /\ req' = [req EXCEPT ![r] = [Done(r, 200) EXCEPT !.script = req[r].script,
                                                   !.calls = req[r].calls,
                                                   !.order = req[r].order,
                                                   !.images = req[r].images]]
  /\ UNCHANGED <<now, counterState, heap, microtasks, admittedToday, start>>

\* ---------------------------------------------------------------- specifications
\* The persisted states a run starts from: no counter yet, or a counter left by
\* earlier requests of today, of yesterday or of a week ago.
InitCounts == {0, GLOBAL_DAILY_LIMIT - 1, GLOBAL_DAILY_LIMIT}
InitDates == {0 - 7, 0 - 1, 0}

InitOver(slots, states) ==
  /\ now = 0
  /\ start \in states
  /\ counterState = IF start = NoObj THEN 0 ELSE 1
  /\ heap = [o \in 1..(Cardinality(slots) + 1) |-> IF o = 1 THEN start ELSE NoObj]
  /\ req = [r \in slots |-> Idle]
  /\ microtasks = <<>>
  /\ admittedToday = 0

InitWith(states) == InitOver(Slots, states)

\* Concurrent requests: MaxReq invocations, each of any verb.
SmallScripts == {<<Scene("a")>>}
SmallPayloads == {ArrayPayload(s) : s \in SmallScripts} \cup {Payload(TRUE, TRUE, FALSE, "null", "undefined", <<>>)}

Init == InitWith({NoObj} \cup [count : InitCounts, lastReset : InitDates])

Next ==
  \/ \E r \in Slots : HandlerEntry(r, FALSE, Methods, SomeBodies)
  \/ \E r \in Slots : AfterGetCounterState(r)
  \/ \E r \in Slots : AfterUpdateCounterState(r)
  \/ \E r \in Slots : GeminiSettle(r)
  \/ \E r \in Slots : ResponseText(r)
  \/ \E r \in Slots : ResponseJson(r, SmallPayloads)
  \/ \E r \in Slots : ImageSettle(r, {"url"})
  \/ \E r \in Slots : HandlerRespond(r)
  \/ Tick

Spec == Init /\ [][Next]_vars

\* Two invocation slots that serve one request after another, from a counter
\* left by yesterday's requests.
InitRace == InitWith({[count |-> c, lastReset |-> 0 - 1] : c \in {0, GLOBAL_DAILY_LIMIT}})

NextRace ==
  \/ \E r \in Slots : HandlerEntry(r, TRUE, {"POST"}, {ValidBody})
  \/ \E r \in Slots : AfterGetCounterState(r)
  \/ \E r \in Slots : AfterUpdateCounterState(r)
  \/ \E r \in Slots : GeminiSettle(r)
  \/ \E r \in Slots : ResponseText(r)
  \/ \E r \in Slots : ResponseJson(r, {ArrayPayload(<<Scene("a")>>)})
  \/ \E r \in Slots : ImageSettle(r, {"url"})
  \/ \E r \in Slots : HandlerRespond(r)
  \/ Tick

SpecRace == InitRace /\ [][NextRace]_vars

\* One request through the whole pipeline, with every kind of body,
\* payload and per-scene outcome.
Scripts == SeqsUpTo(Elems, MaxScenes)
InitPipe == InitWith({NoObj, [count |-> 0, lastReset |-> 0], [count |-> GLOBAL_DAILY_LIMIT, lastReset |-> 0]})

NextPipe ==
  \/ HandlerEntry(1, FALSE, Methods, AllBodies)
  \/ AfterGetCounterState(1)
  \/ AfterUpdateCounterState(1)
  \/ GeminiSettle(1)
  \/ ResponseText(1)
  \/ ResponseJson(1, BadPayloads \cup {ArrayPayload(s) : s \in Scripts})
  \/ ImageSettle(1, ImageOutcomes)
  \/ HandlerRespond(1)
  \/ Tick

SpecPipe == InitPipe /\ [][NextPipe]_vars

\* One request under the scheduling of the runtime: a queued continuation of
\* handler is run, and every fetch and every body read that is pending settles
\* (the upstream services answer or fail, none hangs).  Scripts are made of a
\* scene and null; an image fetch rejects or delivers a URL.
LivePayloads == BadPayloads \cup {ArrayPayload(s) : s \in SeqsUpTo({Scene("a"), NullElem}, MaxScenes)}
LiveOutcomes == {"reject", "url"}

NextLive ==
  \/ HandlerEntry(1, FALSE, Methods, AllBodies)
  \/ AfterGetCounterState(1)
  \/ AfterUpdateCounterState(1)
  \/ GeminiSettle(1)
  \/ ResponseText(1)
  \/ ResponseJson(1, LivePayloads)
  \/ ImageSettle(1, LiveOutcomes)
  \/ HandlerRespond(1)
  \/ Tick

FairLive ==
  /\ WF_vars(AfterGetCounterState(1))
  /\ WF_vars(AfterUpdateCounterState(1))
  /\ WF_vars(GeminiSettle(1))
  /\ WF_vars(ResponseText(1))
  /\ WF_vars(ResponseJson(1, LivePayloads))
  /\ WF_vars(ImageSettle(1, LiveOutcomes))
  /\ WF_vars(HandlerRespond(1))

SpecLive == InitPipe /\ [][NextLive]_vars /\ FairLive

\* A burst: MaxBurst invocations, all valid POST requests of one day, started
\* while earlier ones are still between their quota awaits.  No fetch settles
\* before the microtask queue has drained, so the burst consists of the quota
\* steps alone.  The slots are taken in order (they are interchangeable).
BurstSlots == 1..MaxBurst
InitBurst == InitOver(BurstSlots, {[count |-> 0, lastReset |-> 0 - 1]})

NextBurst ==
  \/ \E r \in BurstSlots :
       /\ \A q \in BurstSlots : q < r => req[q].pc # "idle"
       /\ HandlerEntry(r, FALSE, {"POST"}, {ValidBody})
  \/ \E r \in BurstSlots : AfterGetCounterState(r)
  \/ \E r \in BurstSlots : AfterUpdateCounterState(r)

SpecBurst == InitBurst /\ [][NextBurst]_vars

\* ---------------------------------------------------------------- claims
\* C1: the number of requests admitted on one UTC day never exceeds
\* GLOBAL_DAILY_LIMIT, for any interleaving of concurrent requests (here: of
\* the requests admitted on the current day since midnight).
C1_AdmittedWithinLimit == admittedToday <= GLOBAL_DAILY_LIMIT

\* A step of slot r, and the step in which handler admits r's request.
Steps(r) == req'[r] # req[r]
Resumes(r) == req[r].pc = "getCounterState" /\ req'[r].pc # "getCounterState"
Admits(r) == req[r].pc = "getCounterState" /\ req'[r].pc = "updateCounterState"

\* The run started from a counter of today and no midnight has passed.
SameDayRun == start # NoObj /\ start.lastReset = 0 /\ now = 0

\* C2: from {count: c, lastResetDate: today} and without a day change, after N
\* admissions the persisted count is c + N, it never passes
\* GLOBAL_DAILY_LIMIT, and a POST request that finds it at the limit is
\* answered 429.
C2_AdmissionMonotonic ==
  SameDayRun =>
    /\ Persisted = [count |-> start.count + admittedToday, lastReset |-> 0]
    /\ Persisted.count <= GLOBAL_DAILY_LIMIT
    /\ \A r \in Slots :
         (req[r].pc = "done" /\ req[r].method = "POST" /\ req[r].full)
           => req[r].status = 429

C2_Witness ==
  /\ SameDayRun
  /\ admittedToday = 1
  /\ Persisted.count = GLOBAL_DAILY_LIMIT
  /\ \E r \in Slots : req[r].pc = "done" /\ req[r].status = 429 /\ req[r].body = ValidBody

\* C3: a POST request that resumes on the state {count: GLOBAL_DAILY_LIMIT,
\* lastReset: today} is answered 429, and that step writes nothing: the
\* persisted state is the same object with the same contents.
C3_RejectedAtLimit ==
  [][\A r \in Slots :
       (Resumes(r) /\ heap[req[r].state] = [count |-> GLOBAL_DAILY_LIMIT, lastReset |-> req[r].today])
         => (req'[r].pc = "done" /\ req'[r].status = 429
             /\ counterState' = counterState /\ Persisted' = Persisted)]_vars

C3_Witness ==
  \E r \in Slots :
    /\ req[r].pc = "done" /\ req[r].status = 429 /\ req[r].full
    /\ Persisted = [count |-> GLOBAL_DAILY_LIMIT, lastReset |-> now]

\* C4: a valid request that resumes on a state of another day (one day or many
\* days ago) whose count is at most GLOBAL_DAILY_LIMIT is admitted, and its
\* write leaves {count: 1, lastReset: today} as the persisted state.
C4_DayBoundaryReset ==
  [][\A r \in Slots :
       (Resumes(r) /\ heap[req[r].state].lastReset # req[r].today
        /\ heap[req[r].state].count <= GLOBAL_DAILY_LIMIT
        /\ ~ParseThrows(req[r].body) /\ ~MissingFields(req[r].body))
         => (Admits(r) /\ req'[r].reset
             /\ Persisted' = [count |-> 1, lastReset |-> req[r].today])]_vars

C4_Witness ==
  \E r \in Slots :
    /\ start = [count |-> GLOBAL_DAILY_LIMIT, lastReset |-> 0 - 7]
    /\ req[r].pc = "updateCounterState" /\ req[r].reset
    /\ Persisted = [count |-> 1, lastReset |-> req[r].today]

\* C5: once a request is admitted, none of its later steps changes the
\* counter; when generateScript fails the request ends with 500 and the
\* increment stays.
AfterAdmission == {"updateCounterState", "fetch", "text", "json", "images"}
C5_NoRollback ==
  [][\A r \in Slots :
       (Steps(r) /\ req[r].pc \in AfterAdmission)
         => /\ counterState' = counterState /\ heap' = heap
            /\ (req[r].pc \in {"fetch", "text", "json"} /\ req'[r].pc = "done")
                 => req'[r].status = 500]_vars

C5_Witness ==
  \E r \in Slots :
    /\ SameDayRun /\ start.count = 0
    /\ req[r].pc = "done" /\ req[r].ok /\ req[r].status = 500
    /\ admittedToday = 1 /\ Persisted.count = 1

\* C8: a POST request without idea or duration (a field missing, or no body,
\* or an empty one) is answered 400 in every quota state.
Lacking(body) == ParseThrows(body) \/ MissingFields(body)
C8_ValidationFirst ==
  \A r \in Slots :
    (req[r].pc = "done" /\ req[r].method = "POST" /\ Lacking(req[r].body))
      => req[r].status = 400

Imaged(r) == req[r].pc = "images" \/ (req[r].pc = "done" /\ req[r].status = 200)

\* C6: whatever subset of the per-scene calls fails, the request ends with 200
\* and one image per scene; images[i] is the failure placeholder exactly when
\* call i failed, else the collaborator's reference or the generic image; the
\* settling of one call leaves every other scene's result as it was.
C6_Results ==
  \A r \in Slots : Imaged(r) =>
    /\ Len(req[r].images) = Len(req[r].script)
    /\ \A i \in 1..Len(req[r].calls) :
         req[r].calls[i] # Pending =>
           /\ req[r].images[i] = FailurePlaceholder <=> req[r].calls[i] \in FailedOutcomes
           /\ req[r].calls[i] \notin FailedOutcomes =>
                req[r].images[i] \in {UrlFor(req[r].script[i].description), GenericPlaceholder}

C6_Isolated ==
  \A r \in Slots :
    (req[r].pc = "images" /\ Steps(r)) =>
      /\ req'[r].pc = "done" => (req'[r].status = 200 /\ req'[r].images = req[r].images)
      /\ req'[r].pc = "images" =>
           \A j \in 1..Len(req[r].images) :
             req[r].calls[j] # Pending => req'[r].images[j] = req[r].images[j]

C6_FailureIsolation == []C6_Results /\ [][C6_Isolated]_vars

C6_Witness ==
  /\ req[1].pc = "done" /\ req[1].status = 200
  /\ req[1].script = <<Scene("a"), Scene("b")>>
  /\ req[1].order = <<1, 2>>
  /\ req[1].calls = <<"reject", "url">>
  /\ req[1].images = <<FailurePlaceholder, UrlFor("b")>>

\* C7: generateImages returns one result per scene and result i is the one of
\* scene i, whatever the order in which the calls settle and whichever fail
\* (a script without scenes gives no results).
C7_OrderPreserved ==
  \A r \in Slots : (req[r].pc = "done" /\ req[r].status = 200) =>
    /\ Len(req[r].images) = Len(req[r].script)
    /\ \A i \in 1..Len(req[r].script) :
         /\ req[r].calls[i] = "url" => req[r].images[i] = UrlFor(req[r].script[i].description)
         /\ req[r].calls[i] = "noUrl" => req[r].images[i] = GenericPlaceholder
         /\ req[r].calls[i] \in FailedOutcomes => req[r].images[i] = FailurePlaceholder

C7_Witness ==
  /\ req[1].pc = "done" /\ req[1].status = 200
  /\ req[1].script = <<Scene("a"), Scene("b")>>
  /\ req[1].order = <<2, 1>>
  /\ req[1].calls = <<"url", "notOk">>
  /\ req[1].images = <<UrlFor("a"), FailurePlaceholder>>

\* C10: generateScript returns a script exactly when the payload is a document
\* whose "script" field is an array of Scene records; for every other payload
\* it throws and the request ends with 500.
C10_ShapeValidated ==
  \A r \in Slots : req[r].scripted # "none" =>
    /\ req[r].scripted = "returned" <=> req[r].shaped
    /\ (~req[r].shaped /\ req[r].pc = "done") => req[r].status = 500

\* C11 (Imaging cannot fail the pipeline): a request whose generateScript call
\* returned a script is answered 200; no 500 follows a returned script.
C11_ImagingCannotFail ==
  \A r \in Slots :
    (req[r].pc = "done" /\ req[r].scripted = "returned") => req[r].status = 200

\* C12 (No lost update across a day transition): once the requests that read
\* an earlier day's state have all passed the gate, the persisted state of the
\* new day counts exactly the requests admitted on the new day.
C12_NoLostUpdate ==
  ( /\ \A r \in Slots : req[r].pc # "getCounterState"
    /\ start.lastReset # now
    /\ Persisted.lastReset = now )
  => Persisted.count = admittedToday

\* C13 (Monotonic count within a day): from one persisted state to the next
\* with the same lastResetDate the count does not decrease.
C13_MonotonicWithinDay ==
  [][(Persisted # NoObj /\ Persisted'.lastReset = Persisted.lastReset)
       => Persisted'.count >= Persisted.count]_vars

\* C14 (Increment before work, exactly once): an admitted request raises the
\* count by exactly one and stores it once, and it has done both before it
\* issues the text-generation fetch or any image fetch.
C14_IncrementBeforeWork ==
  \A r \in Slots :
    /\ req[r].ok => (req[r].incr = 1 /\ req[r].wrote)
    /\ (req[r].textCalls > 0 \/ req[r].issued > 0) => (req[r].incr = 1 /\ req[r].wrote)
    /\ ~req[r].ok => (req[r].incr = 0 /\ ~req[r].wrote)

C14_Witness ==
  \E r \in Slots :
    /\ req[r].pc = "images" /\ req[r].reset
    /\ req[r].textCalls = 1 /\ req[r].issued = 1
    /\ req[r].incr = 1 /\ req[r].wrote

\* C15 (Strict two-stage pipeline without retries): a request issues the
\* text-generation fetch at most once; it issues image fetches only after
\* generateScript has returned a script; when generateScript throws, the
\* request is answered 500 in that step and has issued no image fetch.
C15_TwoStageNoRetry ==
  \A r \in Slots :
    /\ req[r].textCalls <= 1
    /\ (req[r].issued > 0 \/ req[r].calls # <<>>) =>
         (req[r].scripted = "returned" /\ req[r].textCalls = 1)
    /\ req[r].scripted = "threw" =>
         (req[r].pc = "done" /\ req[r].status = 500 /\ req[r].issued = 0 /\ req[r].calls = <<>>)

C15_Witness ==
  \E r \in Slots :
    /\ req[r].ok /\ req[r].scripted = "threw" /\ req[r].shaped = FALSE
    /\ req[r].status = 500 /\ req[r].textCalls = 1 /\ req[r].issued = 0

\* C16 (Join-all, not first-failure): for a script of K scenes the request
\* issues exactly K image fetches; it is answered only when all K have settled;
\* a chain that settles, also with a failure, leaves the request waiting while
\* another is pending and leaves the pending chains pending.
C16_AllIssued ==
  \A r \in Slots : Imaged(r) =>
    /\ req[r].issued = Len(req[r].script)
    /\ Len(req[r].calls) = Len(req[r].script)
    /\ req[r].pc = "done" => \A i \in 1..Len(req[r].calls) : req[r].calls[i] # Pending

C16_NoEarlyEnd ==
  \A r \in Slots :
    (req[r].pc = "images" /\ \E i \in 1..Len(req[r].calls) : req[r].calls[i] = Pending) =>
      /\ req'[r].pc = "images"
      /\ \A i \in 1..Len(req[r].calls) :
           req[r].calls[i] # Pending => req'[r].calls[i] = req[r].calls[i]
      /\ Cardinality({i \in 1..Len(req[r].calls) :
                        req[r].calls[i] = Pending /\ req'[r].calls[i] # Pending}) <= 1

C16_JoinAll == []C16_AllIssued /\ [][C16_NoEarlyEnd]_vars

C16_Witness ==
  \E r \in Slots :
    /\ req[r].pc = "images" /\ Len(req[r].script) = MaxScenes
    /\ req[r].calls[1] \in FailedOutcomes
    /\ req[r].calls[MaxScenes] = Pending

\* C17 (No work without admission): a request answered 429, 400, 405 or 204
\* has issued no text-generation fetch and no image fetch; a request that has
\* issued one was admitted and its incremented state was stored before.
C17_NoWorkWithoutAdmission ==
  \A r \in Slots :
    /\ (req[r].pc = "done" /\ req[r].status \in {429, 400, 405, 204}) =>
         (req[r].textCalls = 0 /\ req[r].issued = 0 /\ req[r].calls = <<>>)
    /\ (req[r].pc \in {"fetch", "text", "json", "images"} \/ req[r].textCalls > 0
          \/ req[r].issued > 0) =>
         (req[r].ok /\ req[r].wrote /\ req[r].incr = 1)

C17_Witness ==
  /\ \E r \in Slots : req[r].status = 429 /\ req[r].textCalls = 0 /\ req[r].issued = 0
  /\ \E r \in Slots : req[r].pc = "images" /\ req[r].textCalls = 1 /\ req[r].wrote

\* C18 (Every request is answered): when every upstream call settles, a
\* request that has entered handler is eventually answered with one of 204,
\* 405, 400, 429, 200, 500, and its answer is final: it does not stay between
\* the quota awaits, in generateScript or in generateImages forever.
Statuses == {204, 405, 400, 429, 200, 500}

C18_EveryRequestAnswered ==
  /\ \A r \in Slots :
       (req[r].pc # "idle") ~> (req[r].pc = "done" /\ req[r].status \in Statuses)
  /\ [][\A r \in Slots : req[r].pc = "done" => req'[r] = req[r]]_vars

C18_Witness ==
  \E r \in Slots :
    /\ req[r].pc = "done" /\ req[r].status = 200
    /\ Len(req[r].script) = MaxScenes
    /\ \A i \in 1..MaxScenes : req[r].calls[i] \in FailedOutcomes

\* C19 (Counter bounds): in every reachable state the persisted count is an
\* integer from 0 to GLOBAL_DAILY_LIMIT.
C19_CounterBounds ==
  counterState # 0 =>
    /\ Persisted.count \in Int
    /\ 0 <= Persisted.count /\ Persisted.count <= GLOBAL_DAILY_LIMIT

C19_Witness ==
  /\ start.count = GLOBAL_DAILY_LIMIT - 1 /\ start.lastReset = now
  /\ admittedToday = 1
  /\ Persisted.count = GLOBAL_DAILY_LIMIT
  /\ \E r \in Slots : req[r].status = 429 /\ req[r].full

\* C20 (lastResetDate never moves backwards): from one persisted state to the
\* next the lastResetDate does not decrease; a write of a request that read
\* the clock on the earlier day does not replace a state of the later day.
C20_ResetDateMonotonic ==
  [][(Persisted # NoObj) => Persisted'.lastReset >= Persisted.lastReset]_vars

====
